---------------------------- MODULE Spec2Model ----------------------------
(***************************************************************************)
(* A model of the configuration-file library of cpputils (src/src/conf.cpp *)
(* and src/src/conf.hpp): the lexer, the recursive-descent parser with its *)
(* per-line error recovery, the validator and the serializer.              *)
(*                                                                         *)
(* Texts are sequences of one-character strings.  A read of text[size()]   *)
(* through the std::string_view is outside the view: it yields the byte    *)
(* `pad` that happens to follow the text in memory; a read further out is  *)
(* the absorbing outcome "fault" (the run has left the memory the model    *)
(* describes).                                                             *)
(***************************************************************************)
EXTENDS Integers, Sequences, FiniteSets, TLC

VARIABLES
    text,      \* Lexer::text, the input of parse (0-based offsets in the code)
    pad,       \* the byte stored right after the text
    pc,        \* position of parse(): init, loop, done, threw, bad_optional, fault
    lcur,      \* Lexer::cur
    cur,       \* Parser::cur  (lookahead token)
    prev,      \* Parser::prev (last consumed token)
    errors,    \* Parser::errors
    data,      \* the local `data` of Parser::parse
    result,    \* the ParseResult returned by parse
    oob,       \* TRUE once the lexer has read text[i] with i >= text.size()
    okKeys,    \* history: keys of the entries whose line was parsed without error
    src,       \* the Data handed to create() (serializer runs)
    cpc,       \* position of create(): idle, ready, written, ioerror, fault
    vdata,     \* validate's `data` argument (mutated in place)
    schema,    \* validate's `valid_data` argument
    acceptAny, \* flags::AcceptAnyKey
    ws,        \* validate's warning list `ws`
    vit,       \* the iterator of the running range-for of validate
    vpc,       \* position of validate(): idle, init, prune, fill, done, fault
    pass,      \* which validation of the same Data is running (1 or 2)
    ws1,       \* the warnings the first validation returned
    vin,       \* history: the Data validate was first called with
    lines,     \* the input text as lines of LinePool (indices), when built so
    eofNl      \* whether the text's last line ends with a newline

vars == <<text, pad, pc, lcur, cur, prev, errors, data, result, oob, okKeys,
          src, cpc, vdata, schema, acceptAny, ws, vit, vpc, pass, ws1, vin,
          lines, eofNl>>

parseVars == <<text, pad, pc, lcur, cur, prev, errors, data, result, oob, okKeys,
               lines, eofNl>>
createVars == <<src, cpc>>
validateVars == <<vdata, schema, acceptAny, ws, vit, vpc, pass, ws1, vin>>

(***************************************************************************)
(* Characters                                                              *)
(***************************************************************************)
NUL == "NUL"

\* The characters the model uses, in ASCII order.
Ascii == << NUL, "\t", "\n", "\r", " ", "\"", "#", "$", ",", "-", ".",
            "0", "1", "2", "3", "4", "5", "6", "7", "8", "9", "=",
            "A", "B", "E", "Z", "[", "]", "_",
            "a", "b", "c", "e", "f", "l", "r", "s", "t", "u", "z" >>

Code(c) == CHOOSE i \in 1..Len(Ascii) : Ascii[i] = c

is_alpha(c) == \/ Code(c) >= Code("a") /\ Code(c) <= Code("z")
               \/ Code(c) >= Code("A") /\ Code(c) <= Code("Z")

is_digit(c) == Code(c) >= Code("0") /\ Code(c) <= Code("9")

\* Identifier characters without the dash.
is_ident_char_no_dash(c) == is_alpha(c) \/ c = "_"

is_ident_char(c) == is_alpha(c) \/ c = "_" \/ c = "-"

DigitVal(c) == Code(c) - Code("0")

(***************************************************************************)
(* Lexer.  Offsets are 0-based as in the code; text[i] is text[i+1] here.  *)
(***************************************************************************)
size == Len(text)

InMem(i) == i <= size

\* text[i] for i <= size (the byte at i = size is the one after the view).
Read(i) == IF i < size THEN text[i + 1] ELSE pad

at_end(c) == size = c

Substr(a, b) == SubSeq(text, a + 1, b)

make(type, start, c) == [type |-> type, start |-> start, end |-> c]

Scan(c, o, f) == [cur |-> c, oob |-> o, fault |-> f]

RECURSIVE CommentFrom(_, _)
CommentFrom(c, o) ==
    IF ~InMem(c) THEN Scan(c, TRUE, TRUE)
    ELSE IF Read(c) = "\n" THEN Scan(c, o \/ c >= size, FALSE)
    ELSE CommentFrom(c + 1, o \/ c >= size)

\* Lexer::skip.  A comment is scanned up to a '\n' with no test of at_end().
RECURSIVE skip(_, _)
SkipAfterComment(r) == IF r.fault THEN r ELSE skip(r.cur, r.oob)

skip(c, o) ==
    IF ~InMem(c) THEN Scan(c, TRUE, TRUE)
    ELSE IF Read(c) \in {" ", "\r", "\t"} THEN skip(c + 1, o \/ c >= size)
    ELSE IF Read(c) = "#" THEN SkipAfterComment(CommentFrom(c, o \/ c >= size))
    ELSE Scan(c, o \/ c >= size, FALSE)

RECURSIVE DigitsFrom(_, _)
DigitsFrom(c, o) ==
    IF ~InMem(c) THEN Scan(c, TRUE, TRUE)
    ELSE IF is_digit(Read(c)) THEN DigitsFrom(c + 1, o \/ c >= size)
    ELSE Scan(c, o \/ c >= size, FALSE)

\* The token is made, but the cursor is put back to where the token starts.
Lexed_rewound(type, start, r) ==
    [tok |-> [type |-> type, start |-> start, end |-> r.cur],
     cur |-> start, oob |-> r.oob, fault |-> r.fault]

\* What lex() hands back: the token, the new cursor, and whether the scan read
\* outside the view (oob) or left the modelled memory (fault).
Lexed(type, start, r) ==
    [tok |-> make(type, start, r.cur), cur |-> r.cur, oob |-> r.oob, fault |-> r.fault]

NumberAfterDigits(start, r1) ==
    IF r1.fault THEN Lexed("Int", start, r1)
    ELSE IF Read(r1.cur) # "." THEN Lexed("Int", start, r1)
    ELSE Lexed("Float", start, DigitsFrom(r1.cur + 1, r1.oob))

\* Lexer::number
number(start, c, o) == NumberAfterDigits(start, DigitsFrom(c, o))

RECURSIVE IdentFrom(_, _)
IdentFrom(c, o) ==
    IF ~InMem(c) THEN Scan(c, TRUE, TRUE)
    ELSE IF is_ident_char(Read(c)) \/ is_digit(Read(c))
         THEN IdentFrom(c + 1, o \/ c >= size)
    ELSE Scan(c, o \/ c >= size, FALSE)

WordType(word) == IF word = <<"t", "r", "u", "e">> THEN "True"
                  ELSE IF word = <<"f", "a", "l", "s", "e">> THEN "False"
                  ELSE "Ident"

IdentAfterScan(start, r) ==
    IF r.fault THEN Lexed("Ident", start, r)
    ELSE Lexed(WordType(Substr(start, r.cur)), start, r)

\* Lexer::ident
ident(start, c, o) == IdentAfterScan(start, IdentFrom(c, o))

RECURSIVE StringFrom(_, _)
StringFrom(c, o) ==
    IF ~InMem(c) THEN Scan(c, TRUE, TRUE)
    ELSE IF Read(c) # "\"" /\ ~at_end(c) THEN StringFrom(c + 1, o)
    ELSE Scan(c, o \/ c >= size, FALSE)

StringAfterScan(start, r) ==
    IF r.fault THEN Lexed("Unterminated", start, r)
    ELSE IF at_end(r.cur) THEN Lexed("Unterminated", start, r)
    ELSE Lexed("String", start, Scan(r.cur + 1, r.oob, FALSE))

\* Lexer::string_token
string_token(start, c, o) == StringAfterScan(start, StringFrom(c, o))

LexChar(ch, start, o) ==
    IF ch = "=" THEN Lexed("EqualSign", start, Scan(start + 1, o, FALSE))
    ELSE IF ch = "\n" THEN Lexed("Newline", start, Scan(start + 1, o, FALSE))
    ELSE IF ch = "[" THEN Lexed("LeftSquareBracket", start, Scan(start + 1, o, FALSE))
    ELSE IF ch = "]" THEN Lexed("RightSquareBracket", start, Scan(start + 1, o, FALSE))
    ELSE IF ch = "," THEN Lexed("Comma", start, Scan(start + 1, o, FALSE))
    ELSE IF ch = "\"" THEN string_token(start, start + 1, o)
    ELSE IF is_digit(ch) THEN number(start, start + 1, o)
    ELSE IF is_ident_char(ch) THEN ident(start, start + 1, o)
    ELSE Lexed("InvalidChar", start, Scan(start + 1, o, FALSE))

LexAfterSkip(s) ==
    IF s.fault THEN Lexed("End", s.cur, s)
    ELSE IF at_end(s.cur) THEN Lexed("End", s.cur, s)
    ELSE LexChar(Read(s.cur), s.cur, s.oob)

\* Lexer::lex from cursor c.
lex(c) == LexAfterSkip(skip(c, FALSE))

(***************************************************************************)
(* Values (conf::Value).  Every value is a record of the same shape: type  *)
(* is the variant's discriminant; n holds an int, a bool (0/1) or a        *)
(* float's decimal mantissa; e is a float's number of decimal places; s is *)
(* a string's characters; l is a list's elements.  A float m / 10^e is     *)
(* kept normalised (m not divisible by 10 unless e = 0).                   *)
(***************************************************************************)
IntV(n) == [type |-> "Int", n |-> n, e |-> 0, s |-> <<>>, l |-> <<>>]

BoolV(b) == [type |-> "Bool", n |-> IF b THEN 1 ELSE 0, e |-> 0, s |-> <<>>, l |-> <<>>]

StringV(s) == [type |-> "String", n |-> 0, e |-> 0, s |-> s, l |-> <<>>]

ListV(l) == [type |-> "List", n |-> 0, e |-> 0, s |-> <<>>, l |-> l]

RECURSIVE FloatV(_, _)
FloatV(m, e) ==
    IF e > 0 /\ m % 10 = 0 THEN FloatV(m \div 10, e - 1)
    ELSE [type |-> "Float", n |-> m, e |-> e, s |-> <<>>, l |-> <<>>]

\* Value() = default: the variant's first alternative, int, value-initialised.
DefaultValue == IntV(0)

\* `int` of the build (Value's first alternative is int, not a 64-bit type).
IntMax == 2147483647

\* std::optional<T>: nullopt, or a value.
None == [has |-> FALSE, val |-> DefaultValue]

Some(v) == [has |-> TRUE, val |-> v]

\* std::from_chars over the digits of [a, b): -1 (result_out_of_range) when the
\* value exceeds int.
RECURSIVE FromChars(_, _, _)
FromChars(a, b, acc) ==
    IF a = b THEN acc
    ELSE LET d == DigitVal(Read(a))
         IN IF acc > (IntMax - d) \div 10 THEN -1
            ELSE FromChars(a + 1, b, acc * 10 + d)

\* The conversion never fails: a value that does not fit is stored as 0.
to_number_int_unchecked(t) ==
    LET n == FromChars(t.start, t.end, 0)
    IN IF n = -1 THEN Some(IntV(0)) ELSE Some(IntV(n))

\* string::to_number<int>(t.text)
to_number_int(t) ==
    LET n == FromChars(t.start, t.end, 0)
    IN IF n = -1 THEN None ELSE Some(IntV(n))

\* Where strtod stops when started at the first character of a Float token
\* [a, b): it reads the text itself, past the token, and takes an exponent
\* ([eE], an optional sign, digits) when one follows.  -1: it left the memory.
StrtodEnd(b) ==
    IF ~InMem(b) THEN -1
    ELSE IF Read(b) \notin {"e", "E"} THEN b
    ELSE IF ~InMem(b + 1) THEN -1
    ELSE LET sgn == Read(b + 1) \in {"-", "+"}
             d == IF sgn THEN b + 2 ELSE b + 1
         IN IF ~InMem(d) THEN -1
            ELSE IF is_digit(Read(d))
                 THEN LET r == DigitsFrom(d, FALSE) IN IF r.fault THEN -1 ELSE r.cur
            ELSE b

RECURSIVE DigitsValue(_, _, _)
DigitsValue(a, b, acc) ==
    IF a = b THEN acc ELSE DigitsValue(a + 1, b, acc * 10 + DigitVal(Read(a)))

DotOf(t) == CHOOSE i \in t.start..(t.end - 1) : Read(i) = "."

\* string::to_number<float>(t.text): strtod, then res.ptr must be the token's end.
to_number_float(t) ==
    LET stop == StrtodEnd(t.end)
        dot == DotOf(t)
    IN IF stop # t.end THEN None
       ELSE Some(FloatV(DigitsValue(dot + 1, t.end, DigitsValue(t.start, dot, 0)),
                        t.end - dot - 1))

(***************************************************************************)
(* Parser.  P is the parser's state threaded through the calls:            *)
(* st is "ok", or how the call in progress was left: "error" (a ParseError *)
(* was thrown, held in exc), "bad_optional" (std::bad_optional_access from *)
(* .value()), "fault".                                                     *)
(***************************************************************************)
\* Token cur, prev; : default-initialised, so type and pos are indeterminate
\* and text is the empty view.
IndeterminateToken == [type |-> "Indeterminate", start |-> 0, end |-> 0]

\* What an indeterminate token may hold when it is read.
JunkTokens == { [type |-> "Ident", pos |-> 0], [type |-> "End", pos |-> 1000] }

TokText(t) == Substr(t.start, t.end)

CountNewlines(p) == Cardinality({i \in 0..(p - 1) : i < size /\ Read(i) = "\n"})

\* The column is the plain difference from the last newline, taken as offset 0
\* when there is none: no wrap-around of the unsigned subtraction.
position_of_no_wrap(p) ==
    LET nl == {i \in 0..(p - 1) : i < size /\ Read(i) = "\n"}
        last == CHOOSE i \in nl : \A k \in nl : k <= i
    IN [line |-> CountNewlines(p) + 1,
        col |-> IF nl = {} THEN p ELSE p - last]

\* Lexer::position_of for offset p: find_last_of gives npos = 2^64 - 1 when no
\* newline precedes p, and p - npos wraps to p + 1.
position_of(p) ==
    LET nl == {i \in 0..(p - 1) : i < size /\ Read(i) = "\n"}
        last == CHOOSE i \in nl : \A k \in nl : k <= i
    IN [line |-> CountNewlines(p) + 1,
        col |-> IF nl = {} THEN p + 1 ELSE p - last]

\* Parser::error(t, err): the ParseError thrown.  j resolves an indeterminate t.
MakeError(P, t, err, j) ==
    LET pos == IF t.type = "Indeterminate" THEN j.pos ELSE t.start
        ty == IF t.type = "Indeterminate" THEN j.type ELSE t.type
        lc == position_of(pos)
    IN [error |-> err, line |-> lc.line, col |-> lc.col,
        prev |-> TokText(P.prev),
        cur |-> IF ty = "End" THEN <<"e", "n", "d">> ELSE TokText(t)]

Throw(P, t, err, j) == [P EXCEPT !.st = "error", !.exc = MakeError(P, t, err, j)]

Shift(P, r) ==
    [P EXCEPT !.prev = P.cur, !.cur = r.tok, !.lcur = r.cur, !.oob = P.oob \/ r.oob]

CheckToken(P, j) ==
    IF P.cur.type = "Unterminated" THEN Throw(P, P.cur, "UnterminatedString", j)
    ELSE IF P.cur.type = "InvalidChar" THEN Throw(P, P.cur, "UnexpectedCharacter", j)
    ELSE P

Advanced(P, r, j) ==
    IF r.fault THEN [P EXCEPT !.st = "fault", !.oob = TRUE]
    ELSE CheckToken(Shift(P, r), j)

\* Parser::advance
advance(P, j) == Advanced(P, lex(P.lcur), j)

\* Parser::consume
consume(P, type, err, j) ==
    IF P.cur.type = type THEN advance(P, j) ELSE Throw(P, P.prev, err, j)

NoValue(P) == [P |-> P, has |-> FALSE, val |-> DefaultValue]

SomeValue(P, v) == [P |-> P, has |-> TRUE, val |-> v]

\* std::optional::value(): throws std::bad_optional_access on nullopt.
value(P, opt) ==
    IF opt.has THEN SomeValue(P, opt.val) ELSE NoValue([P EXCEPT !.st = "bad_optional"])

ValueStart == {"Int", "Float", "String", "True", "False", "LeftSquareBracket"}

Pushed(values, r) == IF r.has THEN Append(values, r.val) ELSE values

\* Parser::parse_value and Parser::parse_list.  match(type) is the test of
\* cur.type followed by advance(), which may throw before the value is built.
RECURSIVE parse_value(_, _), parse_list(_, _, _)
ListClosed(P, vs) == IF P.st # "ok" THEN NoValue(P) ELSE SomeValue(P, ListV(vs))

ListAfterComma(P, vs, j) == IF P.st # "ok" THEN NoValue(P) ELSE parse_list(P, vs, j)

ListAfterValue(r, values, j) ==
    IF r.P.st # "ok" THEN NoValue(r.P)
    ELSE IF r.P.cur.type = "Comma"
         THEN ListAfterComma(advance(r.P, j), Pushed(values, r), j)
    ELSE ListClosed(consume(r.P, "RightSquareBracket", "ExpectedComma", j),
                    Pushed(values, r))

parse_list(P, values, j) == ListAfterValue(parse_value(P, j), values, j)

Matched(ty, P, j) ==
    IF P.st # "ok" THEN NoValue(P)
    ELSE IF ty = "Int" THEN value(P, to_number_int(P.prev))
    ELSE IF ty = "Float"
         THEN IF StrtodEnd(P.prev.end) = -1
              THEN NoValue([P EXCEPT !.st = "fault"])
              ELSE value(P, to_number_float(P.prev))
    ELSE IF ty = "String"
         THEN SomeValue(P, StringV(Substr(P.prev.start + 1, P.prev.end - 1)))
    ELSE IF ty \in {"True", "False"} THEN SomeValue(P, BoolV(P.prev.type = "True"))
    ELSE parse_list(P, <<>>, j)

parse_value(P, j) ==
    IF P.cur.type \notin ValueStart THEN NoValue(P)
    ELSE Matched(P.cur.type, advance(P, j), j)

NoExc == [error |-> "none", line |-> 0, col |-> 0, prev |-> <<>>, cur |-> <<>>]

\* The parser's members as the state the calls thread.
PState == [lcur |-> lcur, cur |-> cur, prev |-> prev, oob |-> oob,
           st |-> "ok", exc |-> NoExc]

EmptyData == [k \in {} |-> DefaultValue]

\* data[key] = v
Put(d, key, v) == [k \in DOMAIN d \cup {key} |-> IF k = key THEN v ELSE d[k]]

\* data[key]: operator[] inserts a default-constructed Value for a new key.
Subscript(d, key) == IF key \in DOMAIN d THEN d ELSE Put(d, key, DefaultValue)

Tried(P, d, ok) == [P |-> P, data |-> d, ok |-> ok]

EntryNewline(P, key, d) == Tried(P, d, IF P.st = "ok" THEN {key} ELSE {})

EntryValue(r, key, d, j) ==
    IF r.P.st # "ok" THEN Tried(r.P, d, {})
    ELSE IF ~r.has THEN Tried(Throw(r.P, r.P.prev, "NoValueAfterEqual", j), d, {})
    ELSE EntryNewline(consume(r.P, "Newline", "NoNewlineAfterValue", j),
                      key, Put(d, key, r.val))

EntryEqual(P, key, d, j) ==
    IF P.st # "ok" THEN Tried(P, d, {})
    ELSE EntryValue(parse_value(P, j), key, Subscript(d, key), j)

EntryIdent(P, d, j) ==
    IF P.st # "ok" THEN Tried(P, d, {})
    ELSE EntryEqual(consume(P, "EqualSign", "NoEqualAfterIdent", j),
                    TokText(P.prev), d, j)

\* The try block of Parser::parse: one entry or one blank line.
TryEntry(P, d, j) ==
    IF P.cur.type = "Newline" THEN Tried(advance(P, j), d, {})
    ELSE EntryIdent(consume(P, "Ident", "NoIdent", j), d, j)

\* The catch block after errors.push_back: skip to the end of the line.
RECURSIVE Recover(_, _)
RecoverNext(P, j) == IF P.st # "ok" THEN P ELSE Recover(P, j)

Recover(P, j) ==
    IF P.cur.type # "End" /\ P.cur.type # "Newline"
    THEN RecoverNext(advance(P, j), j)
    ELSE advance(P, j)

\* The catch clause: a ParseError is caught, anything else leaves parse().
Caught(t, j) ==
    IF t.P.st = "error" THEN Recover([t.P EXCEPT !.st = "ok"], j) ELSE t.P

\* How parse() is left, or goes on, after a call that ended in state st.
PcAfter(st) == IF st = "ok" THEN "loop"
               ELSE IF st = "error" THEN "threw"
               ELSE st

NoResult == [has_value |-> FALSE, value |-> EmptyData, error |-> <<>>]

Resume(P) ==
    /\ pc' = PcAfter(P.st)
    /\ lcur' = P.lcur
    /\ cur' = P.cur
    /\ prev' = P.prev
    /\ oob' = P.oob

\* conf.cpp:175-176: the first advance(), outside the try block.
ParseStart ==
    /\ pc = "init"
    /\ \E j \in JunkTokens : Resume(advance(PState, j))
    /\ UNCHANGED <<text, pad, errors, data, result, okKeys, lines, eofNl>>
    /\ UNCHANGED <<createVars, validateVars>>

EntryDone(t, j) ==
    /\ errors' = IF t.P.st = "error" THEN Append(errors, t.P.exc) ELSE errors
    /\ data' = t.data
    /\ okKeys' = okKeys \cup t.ok
    /\ Resume(Caught(t, j))

\* conf.cpp:177-196: one iteration of while (!lexer.at_end()).
ParseEntry ==
    /\ pc = "loop"
    /\ ~at_end(lcur)
    /\ \E j \in JunkTokens : EntryDone(TryEntry(PState, data, j), j)
    /\ UNCHANGED <<text, pad, result, lines, eofNl>>
    /\ UNCHANGED <<createVars, validateVars>>

\* conf.cpp:197-199: ParseResult is either the errors or the data.
ParseReturn ==
    /\ pc = "loop"
    /\ at_end(lcur)
    /\ result' = IF errors # <<>>
                 THEN [has_value |-> FALSE, value |-> EmptyData, error |-> errors]
                 ELSE [has_value |-> TRUE, value |-> data, error |-> <<>>]
    /\ pc' = "done"
    /\ UNCHANGED <<text, pad, lcur, cur, prev, errors, data, oob, okKeys, lines, eofNl>>
    /\ UNCHANGED <<createVars, validateVars>>

(***************************************************************************)
(* Inputs of parse: texts of up to MaxLines lines drawn from LinePool.     *)
(* kind is what the grammar of the format says of the line: "entry" (key = *)
(* value, with the value its literal denotes), "blank" (nothing, or only a *)
(* comment) or "bad" (not a line of the grammar).                          *)
(***************************************************************************)
MaxLines == 2

A == <<"a">>

B == <<"b">>

AEq == <<"a", " ", "=", " ">>

Entry(chars, key, val) == [chars |-> chars, kind |-> "entry", key |-> key, val |-> val]

Blank(chars) == [chars |-> chars, kind |-> "blank", key |-> <<>>, val |-> DefaultValue]

Bad(chars) == [chars |-> chars, kind |-> "bad", key |-> <<>>, val |-> DefaultValue]

\* An integer literal wider than the model's integers: its digits, in s.
WideInt(digits) == [type |-> "Int", n |-> -1, e |-> 0, s |-> digits, l |-> <<>>]

LinePool == <<
    Blank(<<>>),
    Blank(<<" ", "#", " ", "c">>),
    Entry(AEq \o <<"1">>, A, IntV(1)),
    Entry(<<"\t", "b", "=", "t", "r", "u", "e", " ">>, B, BoolV(TRUE)),
    Entry(AEq \o <<"0", ".", "5", "0">>, A, FloatV(5, 1)),
    Entry(<<"b", " ", "=", "\"", "s", "#", "\"">>, B, StringV(<<"s", "#">>)),
    Entry(AEq \o <<"[", "1", ",", " ", "[", "2", "]", ",", "[", "]", "]">>, A,
          ListV(<<IntV(1), ListV(<<IntV(2)>>), ListV(<<>>)>>)),
    Entry(<<"b", "=", "7", " ", "#", "c">>, B, IntV(7)),
    Entry(AEq \o <<"2", "1", "4", "7", "4", "8", "3", "6", "4", "8">>, A,
          WideInt(<<"2", "1", "4", "7", "4", "8", "3", "6", "4", "8">>)),
    Bad(<<"a", " ", "=">>),
    Bad(<<"a">>),
    Bad(<<"=", " ", "1">>),
    Bad(AEq \o <<"1", " ", "2">>),
    Bad(AEq \o <<"$">>),
    Bad(<<"$">>),
    Bad(<<"a", " ", "$", " ", "$">>),
    Bad(AEq \o <<"\"", "s">>),
    Bad(AEq \o <<"-", "5">>),
    Bad(AEq \o <<"[", "1", ",", "]">>),
    Bad(AEq \o <<"[", "1">>),
    Bad(AEq \o <<"1", ".", "5", "e", "3">>),
    Bad(AEq \o <<"[", ",", "1", "]">>),
    Bad(AEq \o <<"[", "1", ",", ",", "2", "]">>),
    Entry(<<"b", "=", "2", "1", "4", "7", "4", "8", "3", "6", "4", "7">>, B, IntV(IntMax)),
    Bad(<<"\"", "s">>)
>>

\* The bytes that may follow the text: the terminator of a C string, or not.
PadChars == {NUL, " "}

RECURSIVE TextOf(_, _)
TextOf(ls, nl) ==
    IF ls = <<>> THEN <<>>
    ELSE LinePool[Head(ls)].chars
         \o (IF Len(ls) > 1 \/ nl THEN <<"\n">> ELSE <<>>)
         \o TextOf(Tail(ls), nl)

LineSeqs == UNION {[1..k -> 1..Len(LinePool)] : k \in 0..MaxLines}

\* Nothing of create() or validate() is running.
CreateIdle == src = EmptyData /\ cpc = "idle"

EndIt == [end |-> TRUE, key |-> <<>>]

ValidateIdle ==
    /\ vdata = EmptyData /\ schema = EmptyData /\ acceptAny = FALSE
    /\ ws = <<>> /\ vit = EndIt /\ vpc = "idle" /\ pass = 0 /\ ws1 = <<>>
    /\ vin = EmptyData

\* Parser parser{text}: the state parse() starts in.
ParserInit ==
    /\ pc = "init"
    /\ lcur = 0
    /\ cur = IndeterminateToken
    /\ prev = IndeterminateToken
    /\ errors = <<>>
    /\ data = EmptyData
    /\ result = NoResult
    /\ oob = FALSE
    /\ okKeys = {}

Init ==
    /\ lines \in LineSeqs
    /\ eofNl \in BOOLEAN
    /\ (lines = <<>> => eofNl)
    /\ text = TextOf(lines, eofNl)
    /\ pad \in PadChars
    /\ ParserInit
    /\ CreateIdle
    /\ ValidateIdle

Next == ParseStart \/ ParseEntry \/ ParseReturn

Spec == Init /\ [][Next]_vars


(***************************************************************************)
(* Serializer: Value::to_string and create().                              *)
(***************************************************************************)
DigitChar(d) == Ascii[Code("0") + d]

RECURSIVE DecDigits(_)
DecDigits(n) ==
    IF n < 10 THEN <<DigitChar(n)>>
    ELSE DecDigits(n \div 10) \o <<DigitChar(n % 10)>>

Abs(n) == IF n < 0 THEN -n ELSE n

Sign(n) == IF n < 0 THEN <<"-">> ELSE <<>>

\* std::to_string(int)
IntToString(n) == Sign(n) \o DecDigits(Abs(n))

\* The digits of n, zero-padded on the left to w places.
RECURSIVE PadDigits(_, _)
PadDigits(n, w) ==
    IF w = 0 THEN <<>> ELSE PadDigits(n \div 10, w - 1) \o <<DigitChar(n % 10)>>

\* The places "%f" prints after the point.
FloatPlaces == 6

\* |m| / 10^e in units of 10^-FloatPlaces, rounded to the nearest.
Micro(m, e) ==
    IF e <= FloatPlaces THEN Abs(m) * 10 ^ (FloatPlaces - e)
    ELSE (Abs(m) + 5 * 10 ^ (e - FloatPlaces - 1)) \div 10 ^ (e - FloatPlaces)

\* std::to_string(float): "%f"
FloatToString(m, e) ==
    Sign(m) \o DecDigits(Micro(m, e) \div 10 ^ FloatPlaces) \o <<".">>
            \o PadDigits(Micro(m, e) % 10 ^ FloatPlaces, FloatPlaces)

\* Value::to_string
RECURSIVE to_string(_), JoinValues(_, _)
JoinValues(l, i) ==
    IF i > Len(l) THEN <<>>
    ELSE <<",", " ">> \o to_string(l[i]) \o JoinValues(l, i + 1)

to_string(v) ==
    IF v.type = "Int" THEN IntToString(v.n)
    ELSE IF v.type = "Float" THEN FloatToString(v.n, v.e)
    ELSE IF v.type = "Bool"
         THEN (IF v.n = 1 THEN <<"t", "r", "u", "e">> ELSE <<"f", "a", "l", "s", "e">>)
    ELSE IF v.type = "String" THEN <<"\"">> \o v.s \o <<"\"">>
    ELSE <<"[">> \o (IF Len(v.l) > 0 THEN to_string(v.l[1]) ELSE <<>>)
               \o JoinValues(v.l, 2) \o <<"]">>

\* std::string's operator<, the order of std::map<std::string, Value>.
RECURSIVE Less(_, _)
Less(x, y) ==
    IF y = <<>> THEN FALSE
    ELSE IF x = <<>> THEN TRUE
    ELSE IF Head(x) # Head(y) THEN Code(Head(x)) < Code(Head(y))
    ELSE Less(Tail(x), Tail(y))

\* begin() of a map with key set K; the end iterator when K is empty.
First(K) ==
    IF K = {} THEN EndIt
    ELSE [end |-> FALSE, key |-> CHOOSE k \in K : \A o \in K : o = k \/ Less(k, o)]

\* ++it for the iterator at key k of a map with key set K.
Succ(K, k) == First({o \in K : Less(k, o)})

RECURSIVE Spaces(_)
Spaces(n) == IF n <= 0 THEN <<>> ELSE <<" ">> \o Spaces(n - 1)

MaxOf(S) == CHOOSE n \in S : \A o \in S : o <= n

\* The widest key: max_element(...)->first.size(), for a map that has entries.
Width(d) == MaxOf({Len(k) : k \in DOMAIN d})

\* fmt::print(file, "{:{}} = {}\n", k, width, v.to_string())
EntryLine(k, v, width) ==
    k \o Spaces(width - Len(k)) \o <<" ", "=", " ">> \o to_string(v) \o <<"\n">>

\* The for loop of create(), from the iterator it on.
RECURSIVE Serialize(_, _, _)
Serialize(d, it, width) ==
    IF it.end THEN <<>>
    ELSE EntryLine(it.key, d[it.key], width)
         \o Serialize(d, Succ(DOMAIN d, it.key), width)

ParserIdle ==
    /\ pc = "idle" /\ lcur = 0
    /\ cur = IndeterminateToken /\ prev = IndeterminateToken
    /\ errors = <<>> /\ data = EmptyData /\ result = NoResult
    /\ oob = FALSE /\ okKeys = {}

\* create() opened the file and wrote t; the file is then read and parsed.
Written(t) ==
    /\ cpc' = "written"
    /\ text' = t
    /\ pc' = "init"

\* conf.cpp:275-286.  With an empty map max_element returns end(), which is
\* dereferenced: the width is then anything, or the read faults; no line is
\* written either way.
Create ==
    /\ cpc = "ready"
    /\ \/ cpc' = "ioerror" /\ UNCHANGED <<text, pc>>
       \/ src # EmptyData /\ Written(Serialize(src, First(DOMAIN src), Width(src)))
       \/ src = EmptyData /\ Written(<<>>)
       \/ src = EmptyData /\ cpc' = "fault" /\ UNCHANGED <<text, pc>>
    /\ UNCHANGED <<pad, lcur, cur, prev, errors, data, result, oob, okKeys, lines, eofNl>>
    /\ UNCHANGED <<src, validateVars>>


(***************************************************************************)
(* Validator: validate(data, valid_data).                                  *)
(***************************************************************************)
Warning(type, key, newval, orig) ==
    [type |-> type, key |-> key, newval |-> newval, orig |-> orig]

\* data.erase(k)
Erase(d, k) == [o \in DOMAIN d \ {k} |-> d[o]]

\* The flag is not looked at: the keys outside the schema are always removed.
PruneSkipped_never == FALSE

\* flags::AcceptAnyKey: keys outside the schema are accepted, so the loop that
\* removes them is not run.
PruneSkipped == acceptAny

\* validate(data, valid_data) is entered: ws is empty, the first loop begins.
ValidateCall ==
    /\ vpc = "init"
    /\ IF PruneSkipped
       THEN vpc' = "fill" /\ vit' = First(DOMAIN schema)
       ELSE vpc' = "prune" /\ vit' = First(DOMAIN vdata)
    /\ UNCHANGED <<vdata, schema, acceptAny, ws, pass, ws1, vin>>
    /\ UNCHANGED <<parseVars, createVars>>

\* conf.cpp:254-259, a key of the schema: nothing is done, the iterator advances.
PruneKeep ==
    /\ vpc = "prune"
    /\ ~vit.end
    /\ vit.key \in DOMAIN schema
    /\ vit' = Succ(DOMAIN vdata, vit.key)
    /\ UNCHANGED <<vdata, schema, acceptAny, ws, vpc, pass, ws1, vin>>
    /\ UNCHANGED <<parseVars, createVars>>

\* Where the range-for's ++it may leave an iterator whose element was erased:
\* at any entry still in the map, or at end().
Dangling(d) == {[end |-> FALSE, key |-> k] : k \in DOMAIN d} \cup {EndIt}

\* conf.cpp:254-259, a key outside the schema: the element the loop's iterator
\* refers to is erased, and the iterator is then incremented.
PruneErase ==
    /\ vpc = "prune"
    /\ ~vit.end
    /\ vit.key \notin DOMAIN schema
    /\ ws' = Append(ws, Warning("InvalidKey", vit.key, DefaultValue, DefaultValue))
    /\ vdata' = Erase(vdata, vit.key)
    /\ \/ vit' \in Dangling(vdata') /\ vpc' = vpc
       \/ vit' = EndIt /\ vpc' = "fault"
    /\ UNCHANGED <<schema, acceptAny, pass, ws1, vin>>
    /\ UNCHANGED <<parseVars, createVars>>

\* The first loop ends; conf.cpp:261 begins the loop over valid_data.
PruneEnd ==
    /\ vpc = "prune"
    /\ vit.end
    /\ vpc' = "fill"
    /\ vit' = First(DOMAIN schema)
    /\ UNCHANGED <<vdata, schema, acceptAny, ws, pass, ws1, vin>>
    /\ UNCHANGED <<parseVars, createVars>>

\* The default is stored only over a value of another type, never for a key
\* that is absent.
Filled_mismatch_only(d, k, v) ==
    IF k \in DOMAIN d /\ v.type # d[k].type THEN Put(d, k, v) ELSE d

\* The MismatchedTypes warning is built after the entry was overwritten: orig
\* is the default, not the old value.
FillWarnings_orig_lost(w, d, k, v) ==
    IF k \notin DOMAIN d THEN Append(w, Warning("MissingKey", k, v, DefaultValue))
    ELSE IF v.type # d[k].type THEN Append(w, Warning("MismatchedTypes", k, v, v))
    ELSE w

\* The warnings of the second loop are put in front of the list.
FillWarnings_front(w, d, k, v) ==
    IF k \notin DOMAIN d THEN <<Warning("MissingKey", k, v, DefaultValue)>> \o w
    ELSE IF v.type # d[k].type THEN <<Warning("MismatchedTypes", k, v, d[k])>> \o w
    ELSE w

\* The default replaces every value that differs from it, not only a value of
\* another type.
Filled_unequal(d, k, v) ==
    IF k \notin DOMAIN d THEN Put(d, k, v)
    ELSE IF v # d[k] THEN Put(d, k, v)
    ELSE d

\* conf.cpp:262-270 for the schema entry (k, v).
Filled(d, k, v) ==
    IF k \notin DOMAIN d THEN Put(d, k, v)
    ELSE IF v.type # d[k].type THEN Put(d, k, v)
    ELSE d

FillWarnings(w, d, k, v) ==
    IF k \notin DOMAIN d THEN Append(w, Warning("MissingKey", k, v, DefaultValue))
    ELSE IF v.type # d[k].type THEN Append(w, Warning("MismatchedTypes", k, v, d[k]))
    ELSE w

\* conf.cpp:261-271: one iteration of the loop over valid_data.
FillStep ==
    /\ vpc = "fill"
    /\ ~vit.end
    /\ ws' = FillWarnings(ws, vdata, vit.key, schema[vit.key])
    /\ vdata' = Filled(vdata, vit.key, schema[vit.key])
    /\ vit' = Succ(DOMAIN schema, vit.key)
    /\ UNCHANGED <<schema, acceptAny, vpc, pass, ws1, vin>>
    /\ UNCHANGED <<parseVars, createVars>>

\* conf.cpp:272: return ws.
ValidateReturn ==
    /\ vpc = "fill"
    /\ vit.end
    /\ vpc' = "done"
    /\ UNCHANGED <<vdata, schema, acceptAny, ws, vit, pass, ws1, vin>>
    /\ UNCHANGED <<parseVars, createVars>>

\* The caller validates the returned Data against the same schema once more.
Revalidate ==
    /\ vpc = "done"
    /\ pass = 1
    /\ pass' = 2
    /\ ws1' = ws
    /\ ws' = <<>>
    /\ vpc' = "init"
    /\ UNCHANGED <<vdata, schema, acceptAny, vit, vin>>
    /\ UNCHANGED <<parseVars, createVars>>

(***************************************************************************)
(* Inputs of create() and validate(): maps over the first MaxKeys keys of  *)
(* KeyPool.                                                                *)
(***************************************************************************)
MaxKeys == 2

KeyPool == << A, <<"b", "c">>, <<"a", "b">>, <<"c">> >>

Keys == {KeyPool[i] : i \in 1..MaxKeys}

DataOver(K, V) == UNION {[D -> V] : D \in SUBSET K}

\* Values without a double quote or a newline in any string.
SrcValues == { IntV(12), IntV(-5), FloatV(15, 1), BoolV(FALSE),
               StringV(<<"s", " ", "#">>), StringV(<<>>), ListV(<<>>),
               ListV(<<IntV(1), ListV(<<BoolV(TRUE)>>)>>) }

DataValues == { IntV(1), StringV(<<"s">>), ListV(<<IntV(1)>>) }

SchemaValues == { IntV(0), ListV(<<BoolV(TRUE)>>) }

\* create(path, src), then parse of the file's content as read_file returns
\* it, a std::string (so the byte after the text is its terminator).
InitCreate ==
    /\ src \in DataOver(Keys, SrcValues)
    /\ cpc = "ready"
    /\ ParserIdle
    /\ text = <<>>
    /\ pad = NUL
    /\ lines = <<>>
    /\ eofNl = TRUE
    /\ ValidateIdle

NextCreate == Create \/ ParseStart \/ ParseEntry \/ ParseReturn

SpecCreate == InitCreate /\ [][NextCreate]_vars

InitValidate ==
    /\ vdata \in DataOver(Keys, DataValues)
    /\ vin = vdata
    /\ schema \in DataOver(Keys, SchemaValues)
    /\ acceptAny \in BOOLEAN
    /\ ws = <<>>
    /\ ws1 = <<>>
    /\ vit = EndIt
    /\ vpc = "init"
    /\ pass = 1
    /\ ParserIdle
    /\ text = <<>>
    /\ pad = NUL
    /\ lines = <<>>
    /\ eofNl = TRUE
    /\ CreateIdle

NextValidate ==
    \/ ValidateCall \/ PruneKeep \/ PruneErase \/ PruneEnd
    \/ FillStep \/ ValidateReturn \/ Revalidate

SpecValidate == InitValidate /\ [][NextValidate]_vars


(***************************************************************************)
(* The lexer on its own: lex() is called until it returns End, by a caller *)
(* that keeps the last two tokens in prev and cur, as Parser::advance does. *)
(***************************************************************************)
LexReturned(r) ==
    IF r.fault
    THEN pc' = "fault" /\ oob' = TRUE /\ UNCHANGED <<lcur, cur, prev>>
    ELSE /\ pc' = (IF r.tok.type = "End" THEN "lexed" ELSE "lexing")
         /\ prev' = cur
         /\ cur' = r.tok
         /\ lcur' = r.cur
         /\ oob' = (oob \/ r.oob)

LexCall ==
    /\ pc = "lexing"
    /\ LexReturned(lex(lcur))
    /\ UNCHANGED <<text, pad, errors, data, result, okKeys, lines, eofNl>>
    /\ UNCHANGED <<createVars, validateVars>>

InitLex ==
    /\ lines \in LineSeqs
    /\ eofNl \in BOOLEAN
    /\ (lines = <<>> => eofNl)
    /\ text = TextOf(lines, eofNl)
    /\ pad \in PadChars
    /\ pc = "lexing"
    /\ lcur = 0
    /\ cur = IndeterminateToken
    /\ prev = IndeterminateToken
    /\ errors = <<>>
    /\ data = EmptyData
    /\ result = NoResult
    /\ oob = FALSE
    /\ okKeys = {}
    /\ CreateIdle
    /\ ValidateIdle

NextLex == LexCall

SpecLex == InitLex /\ [][NextLex]_vars

(***************************************************************************)
(* The lexer with a caller that locates every token: after each lex() the  *)
(* ParseError that Parser::error(cur, ...) builds for the token is kept in *)
(* errors (nothing is thrown), so its line and col are position_of(cur).   *)
(***************************************************************************)
Located(r, j) ==
    IF r.fault THEN errors' = errors
    ELSE errors' = Append(errors, MakeError([prev |-> cur], r.tok, "located", j))

LocateCall ==
    /\ pc = "lexing"
    /\ LexReturned(lex(lcur))
    /\ \E j \in JunkTokens : Located(lex(lcur), j)
    /\ UNCHANGED <<text, pad, data, result, okKeys, lines, eofNl>>
    /\ UNCHANGED <<createVars, validateVars>>

NextLocate == LocateCall

SpecLocate == InitLex /\ [][NextLocate]_vars

(***************************************************************************)
(* parse_or_create(appname, defaults): text is the content of the          *)
(* configuration file, src the defaults.                                   *)
(***************************************************************************)
\* ParseError { .error = err.default_error_condition() }: the error of the
\* failed open, no position and no tokens.
IoError == [error |-> "io_error", line |-> 0, col |-> 0, prev |-> <<>>, cur |-> <<>>]

DefaultsValues == { IntV(12), StringV(<<"s">>) }

\* conf.cpp:301: io::read_file(file_path) succeeds, and its std::string is
\* handed to parse; or it fails, and create(file_path, defaults) is called.
ReadFile ==
    /\ pc = "poc"
    /\ \/ pc' = "init" /\ cpc' = cpc
       \/ pc' = "creating" /\ cpc' = "ready"
    /\ UNCHANGED <<text, pad, lcur, cur, prev, errors, data, result, oob, okKeys,
                   lines, eofNl>>
    /\ UNCHANGED <<src, validateVars>>

\* parse_or_create returns r.
Returned(r) == result' = r /\ pc' = "done"

\* conf.cpp:303-305: create(file_path, defaults); its error is returned as a
\* one-element ParseError list, otherwise the defaults are returned.
CreateDefaults ==
    /\ pc = "creating"
    /\ cpc = "ready"
    /\ \/ /\ cpc' = "ioerror"
          /\ text' = text
          /\ Returned([has_value |-> FALSE, value |-> EmptyData, error |-> <<IoError>>])
       \/ /\ src # EmptyData
          /\ cpc' = "written"
          /\ text' = Serialize(src, First(DOMAIN src), Width(src))
          /\ Returned([has_value |-> TRUE, value |-> src, error |-> <<>>])
       \/ /\ src = EmptyData
          /\ cpc' = "written"
          /\ text' = <<>>
          /\ Returned([has_value |-> TRUE, value |-> src, error |-> <<>>])
       \/ /\ src = EmptyData
          /\ cpc' = "fault"
          /\ pc' = "fault"
          /\ UNCHANGED <<text, result>>
    /\ UNCHANGED <<pad, lcur, cur, prev, errors, data, oob, okKeys, lines, eofNl>>
    /\ UNCHANGED <<src, validateVars>>

InitParseOrCreate ==
    /\ lines \in LineSeqs
    /\ eofNl \in BOOLEAN
    /\ (lines = <<>> => eofNl)
    /\ text = TextOf(lines, eofNl)
    /\ pad = NUL
    /\ pc = "poc"
    /\ lcur = 0
    /\ cur = IndeterminateToken
    /\ prev = IndeterminateToken
    /\ errors = <<>>
    /\ data = EmptyData
    /\ result = NoResult
    /\ oob = FALSE
    /\ okKeys = {}
    /\ src \in DataOver(Keys, DefaultsValues)
    /\ cpc = "idle"
    /\ ValidateIdle

NextParseOrCreate ==
    ReadFile \/ CreateDefaults \/ ParseStart \/ ParseEntry \/ ParseReturn

SpecParseOrCreate == InitParseOrCreate /\ [][NextParseOrCreate]_vars

(***************************************************************************)
(* What the grammar of the format says of an input built from LinePool.    *)
(***************************************************************************)
Line(i) == LinePool[lines[i]]

LinesOfKind(kind) == {i \in 1..Len(lines) : Line(i).kind = kind}

\* Every line of the text ends with a newline and is of one of the kinds.
TextOfKinds(kinds) ==
    /\ pc # "idle"
    /\ cpc = "idle"
    /\ eofNl
    /\ \A i \in 1..Len(lines) : Line(i).kind \in kinds

LastEntryFor(k) ==
    CHOOSE i \in LinesOfKind("entry") :
        /\ Line(i).key = k
        /\ \A o \in LinesOfKind("entry") : Line(o).key = k => o <= i

\* The Data the entries of the text denote.
Denoted == [k \in {Line(i).key : i \in LinesOfKind("entry")} |-> Line(LastEntryFor(k)).val]

NoWideInt == \A i \in LinesOfKind("entry") : Line(i).val.n # -1

\* parse() was left by an exception, or ran out of the text's memory.
Aborted == pc \in {"threw", "bad_optional", "fault"}

(***************************************************************************)
(* Claims                                                                  *)
(***************************************************************************)

\* C1: round trip.  When create() has written a Data none of whose strings
\* holds a double quote or a newline, parsing the written text ends without
\* error and returns a Data with the same keys and equal values.
C1_RoundTrip ==
    (cpc = "written" /\ pc \notin {"init", "loop"}) =>
        /\ pc = "done"
        /\ result.has_value
        /\ result.error = <<>>
        /\ result.value = src

\* C2: validator idempotence.  A second validate() of the Data the first one
\* returned, against the same schema, returns an empty warning list.
C2_Idempotent == (~acceptAny /\ pass = 2 /\ vpc = "done") => ws = <<>>

\* C3: after validate() returns (accept-any-key off) the Data is
\* schema-conformant: it has exactly the schema's keys, each with a value of
\* the type of the schema's default.
C3_Conformant ==
    (~acceptAny /\ vpc = "done") =>
        /\ DOMAIN vdata = DOMAIN schema
        /\ \A k \in DOMAIN schema : vdata[k].type = schema[k].type

\* C4: for every input text parse() returns normally: no ParseError, lexical
\* or structural, propagates to the caller.
C4_NoErrorEscapes == pad = NUL => pc # "threw"

\* C5: when parse() found an error after entries that parsed successfully, its
\* result carries both the partial Data and the error list.
C5_PartialData ==
    (pc = "done" /\ errors # <<>> /\ okKeys # {}) =>
        /\ result.error = errors
        /\ result.has_value
        /\ result.value = data

\* C6: error recovery.  For a text of newline-terminated lines, each a valid
\* or a malformed entry, parse() returns, reports exactly one ParseError per
\* malformed line, and the Data holds the entry of every valid line.
C6_Recovery ==
    (pad = NUL /\ TextOfKinds({"entry", "bad"}) /\ NoWideInt) =>
        /\ ~Aborted
        /\ pc = "done" =>
             /\ Len(errors) = Cardinality(LinesOfKind("bad"))
             /\ \A k \in DOMAIN Denoted : k \in DOMAIN data /\ data[k] = Denoted[k]

\* C7: a line that raises a ParseError adds no entry: when parse() returns, a
\* key is in the Data it built only if some line assigning it was parsed
\* without error.
C7_NoEntryFromBadLine == pc = "done" => DOMAIN data \subseteq okKeys

\* C8: for every text of the grammar (entries, blank lines, comments,
\* indentation, scalar literals, nested lists; every line ended by a newline)
\* parse() returns zero errors and the Data the literals denote.
C8_Grammar ==
    (pad = NUL /\ TextOfKinds({"entry", "blank"})) =>
        /\ ~Aborted
        /\ pc = "done" =>
             /\ errors = <<>>
             /\ result.has_value
             /\ result.value = Denoted

\* C9: parse() terminates on every finite text: no scan of the lexer runs on
\* past the end of the text.
C9_Terminates == pad = NUL => pc # "fault"

\* C10: with accept-any-key on, every key of the input that is not in the
\* schema stays in the Data with its value unchanged, and no warning names it.
C10_AcceptAnyKey ==
    acceptAny =>
        \A k \in DOMAIN vin \ DOMAIN schema :
            /\ k \in DOMAIN vdata
            /\ vdata[k] = vin[k]
            /\ \A i \in 1..Len(ws) : ws[i].key # k

\* A validation with accept-any-key on has returned warnings for schema keys
\* while the input held a key outside the schema.
C10_Witness ==
    /\ acceptAny
    /\ vpc = "done"
    /\ ws # <<>>
    /\ DOMAIN vin \ DOMAIN schema # {}

\* The positions in the returned warning list of the warnings of one type
\* about one key.
WarningsOf(type, k) == {i \in 1..Len(ws) : ws[i].type = type /\ ws[i].key = k}

\* The first validate(D, S), accept-any-key off, has returned.
Validated == ~acceptAny /\ pass = 1 /\ vpc = "done"

\* C11: with accept-any-key off, validate() returns, with exactly one
\* InvalidKey warning for each key of the input that is not in the schema, and
\* with every such key removed from the Data.
C11_PruneEach ==
    (~acceptAny /\ pass = 1) =>
        /\ vpc # "fault"
        /\ vpc = "done" =>
             \A k \in DOMAIN vin \ DOMAIN schema :
                 /\ k \notin DOMAIN vdata
                 /\ Cardinality(WarningsOf("InvalidKey", k)) = 1

\* C12: for every schema key absent from the data validate() was given, the
\* returned list holds exactly one MissingKey warning, whose replacement value
\* is the schema default, and the Data holds that default under the key.
C12_MissingFilled ==
    Validated =>
        \A k \in DOMAIN schema \ DOMAIN vin :
            /\ Cardinality(WarningsOf("MissingKey", k)) = 1
            /\ \A i \in WarningsOf("MissingKey", k) : ws[i].newval = schema[k]
            /\ k \in DOMAIN vdata
            /\ vdata[k] = schema[k]

\* A validation has returned after removing a key outside the schema and
\* filling in a schema key the input did not have.
C12_Witness ==
    /\ Validated
    /\ DOMAIN schema \ DOMAIN vin # {}
    /\ DOMAIN vin \ DOMAIN schema # {}
    /\ \E i \in 1..Len(ws) : ws[i].type = "MissingKey"

\* The schema keys the input holds with a value of another type than the default.
Mismatched == {k \in DOMAIN schema \cap DOMAIN vin : vin[k].type # schema[k].type}

\* C13: for every schema key whose value in the data has another type
\* discriminant than the schema default, the returned list holds exactly one
\* MismatchedTypes warning, carrying the old value and the default, and the
\* Data holds the default under the key.
C13_MismatchRepaired ==
    Validated =>
        \A k \in Mismatched :
            /\ Cardinality(WarningsOf("MismatchedTypes", k)) = 1
            /\ \A i \in WarningsOf("MismatchedTypes", k) :
                   ws[i].newval = schema[k] /\ ws[i].orig = vin[k]
            /\ vdata[k] = schema[k]

\* A validation has returned after overwriting a value of the wrong type.
C13_Witness ==
    /\ Validated
    /\ Mismatched # {}
    /\ \E i \in 1..Len(ws) : ws[i].type = "MismatchedTypes" /\ ws[i].orig # ws[i].newval

\* C14: in the warning list of validate() every InvalidKey warning comes
\* before every MissingKey and MismatchedTypes warning.
C14_PruneBeforeFill ==
    \A i \in 1..Len(ws) : \A o \in 1..Len(ws) :
        (i < o /\ ws[o].type = "InvalidKey") => ws[i].type = "InvalidKey"

\* A validation has returned a list holding warnings of both loops.
C14_Witness ==
    /\ vpc = "done"
    /\ \E i \in 1..Len(ws) : ws[i].type = "InvalidKey"
    /\ \E i \in 1..Len(ws) : ws[i].type # "InvalidKey"

\* C15: when the configuration file cannot be read, parse_or_create writes
\* the defaults to the file and returns a Data equal to the defaults, with no
\* error reported.
C15_ReadFailureGivesDefaults ==
    (cpc # "idle" /\ pc # "creating") =>
        /\ pc = "done"
        /\ cpc = "written"
        /\ text = Serialize(src, First(DOMAIN src), Width(src))
        /\ result.has_value
        /\ result.value = src
        /\ result.error = <<>>

\* The lines of LinePool that hold a bracketed list with a comma that no value
\* follows or precedes: a trailing comma, a leading comma, two commas in a row.
StrayCommaLines ==
    {i \in 1..Len(LinePool) :
        /\ LinePool[i].kind = "bad"
        /\ \E o \in 1..Len(LinePool[i].chars) : LinePool[i].chars[o] = ","
        /\ LinePool[i].chars[Len(LinePool[i].chars)] = "]"}

\* C16: a list with a trailing comma, a leading comma or two consecutive
\* commas raises a ParseError and produces no List value.
C16_ListForm ==
    (/\ pad = NUL
     /\ TextOfKinds({"bad"})
     /\ lines # <<>>
     /\ \A i \in 1..Len(lines) : lines[i] \in StrayCommaLines) =>
        /\ ~Aborted
        /\ pc = "done" =>
             /\ Len(errors) = Len(lines)
             /\ \A k \in DOMAIN data : data[k].type # "List"

\* lex() has returned the token in cur.
TokenReturned == pc \in {"lexing", "lexed"} /\ cur.type # "Indeterminate"

\* The token lex() returned starts with a '-' that a digit follows.
SignedLiteral ==
    /\ TokenReturned
    /\ cur.type # "End"
    /\ Read(cur.start) = "-"
    /\ is_digit(Read(cur.start + 1))

\* C17 (as stated): for input starting with '-' followed by digits, lex()
\* returns the '-' alone, as an InvalidChar token.
C17_DashIsInvalidChar ==
    SignedLiteral => cur.type = "InvalidChar" /\ cur.end = cur.start + 1

\* C17 (amended): for input starting with '-' followed by digits, lex()
\* returns no numeric token and no InvalidChar token: the '-' and the digits
\* after it are one Ident token.
C17_DashIsIdent ==
    SignedLiteral =>
        /\ cur.type = "Ident"
        /\ cur.end > cur.start + 1
        /\ \A i \in (cur.start + 1)..(cur.end - 1) :
               is_digit(Read(i)) \/ is_ident_char(Read(i))
        /\ ~is_digit(Read(cur.end))

\* lex() has returned the token of a '-' followed by a digit.
C17_Witness == SignedLiteral /\ pc = "lexing" /\ prev.type = "EqualSign"

\* C20: each token lex() returns starts at or after the end of the token it
\* returned before, and every token other than End is at least one character
\* long.
C20_TokensAdvance ==
    TokenReturned =>
        /\ prev.type # "Indeterminate" => prev.end <= cur.start
        /\ cur.start <= cur.end
        /\ cur.type # "End" => cur.end - cur.start >= 1

\* lex() has returned End after at least two other tokens.
C20_Witness ==
    /\ pc = "lexed"
    /\ cur.type = "End"
    /\ prev.type \notin {"Indeterminate", "End"}
    /\ prev.start > 0

\* The text is one or more newline-terminated entries whose values are all
\* unsigned decimal integer literals.
IntLiteralText ==
    /\ pad = NUL
    /\ TextOfKinds({"entry"})
    /\ lines # <<>>
    /\ \A i \in 1..Len(lines) : Line(i).val.type = "Int"

\* C18 (as stated): Int values are 64-bit: every unsigned decimal integer
\* literal up to 2^63 - 1, so every such literal of LinePool, parses to an Int
\* value equal to the literal's value.
C18_Int64 ==
    IntLiteralText =>
        /\ ~Aborted
        /\ pc = "done" => result.has_value /\ result.value = Denoted

\* C18 (amended): Int values are `int`: every unsigned decimal integer literal
\* up to IntMax parses to an Int value equal to the literal's value, and a
\* text with a literal above IntMax yields no Data (parse does not return).
C18_Int32 ==
    IntLiteralText =>
        /\ pc \notin {"threw", "fault"}
        /\ NoWideInt =>
             /\ pc # "bad_optional"
             /\ pc = "done" => result.has_value /\ result.value = Denoted
        /\ ~NoWideInt => pc # "done"

\* parse() has returned a Data holding the Int value IntMax, read from its
\* literal.
C18_Witness ==
    /\ IntLiteralText
    /\ pc = "done"
    /\ result.has_value
    /\ \E k \in DOMAIN result.value : result.value[k] = IntV(IntMax)

\* C19: the numeric conversion of parse_value succeeds for every token the
\* lexer classified as Int or Float: parse() is never left by the
\* std::bad_optional_access of a failed conversion.
C19_ConversionSucceeds == pc # "bad_optional"

\* The offsets before p that hold a newline.
NewlinesBefore(p) == {i \in 0..(p - 1) : text[i + 1] = "\n"}

\* The offsets up to and including p that come after every newline before p.
SinceNewline(p) == {i \in 0..p : \A k \in NewlinesBefore(p) : k < i}

\* C21: position_of maps a token's offset to (line, column): line is 1 plus
\* the number of newlines before the offset, column is the 1-based distance
\* from the preceding newline, and offset + 1 when no newline precedes.
C21_PositionOf ==
    (TokenReturned /\ errors # <<>>) =>
        /\ errors[Len(errors)].line = 1 + Cardinality(NewlinesBefore(cur.start))
        /\ errors[Len(errors)].col = Cardinality(SinceNewline(cur.start))
        /\ NewlinesBefore(cur.start) = {} => errors[Len(errors)].col = cur.start + 1

\* A token that is neither on the first line nor first on its line has been
\* located, after a token of the first line.
C21_Witness ==
    /\ TokenReturned
    /\ Len(errors) >= 2
    /\ errors[1].line = 1
    /\ errors[Len(errors)].line >= 2
    /\ errors[Len(errors)].col >= 2

\* The errors consume() raises.
ConsumeErrors == {"NoIdent", "NoEqualAfterIdent", "NoNewlineAfterValue", "ExpectedComma"}

\* (line, col) is the position of an offset of the text.
InsideText(line, col) ==
    \E p \in 0..(size - 1) : position_of(p).line = line /\ position_of(p).col = col

\* C22: the ParseError consume() raises on a lookahead of the wrong kind
\* carries a line and a column that are a 1-based position inside the text,
\* for every input, also when the first token of the input is the wrong one.
C22_ErrorPosition ==
    \A i \in 1..Len(errors) :
        errors[i].error \in ConsumeErrors => InsideText(errors[i].line, errors[i].col)

\* C23: the lexer never reads text[i] with i >= text.size().
C23_ReadsInBounds == ~oob

\* The first token of the text is an unexpected character or an unterminated
\* string.
FirstTokenLexicalError ==
    /\ pad = NUL
    /\ pc \notin {"idle", "poc", "lexing", "lexed"}
    /\ cpc = "idle"
    /\ ~lex(0).fault
    /\ lex(0).tok.type \in {"InvalidChar", "Unterminated"}

\* C24: a lexical error on the very first token of the input is recorded in
\* the error list and parsing goes on: parse() is not left by the error, and
\* when it returns the first error of its list is that lexical error.
C24_FirstTokenError ==
    FirstTokenLexicalError =>
        /\ pc # "threw"
        /\ pc = "done" =>
             /\ errors # <<>>
             /\ errors[1].error \in {"UnexpectedCharacter", "UnterminatedString"}

\* C25: recovery after an error always completes: once parse() has caught an
\* error, the tokens it discards and the first token of the following line
\* never make it leave by a ParseError, whatever their kind.
C25_RecoveryCompletes == (pad = NUL /\ errors # <<>>) => pc # "threw"

\* Every line of the text is an entry or a blank line of the grammar, and the
\* last entry is ended by a newline.
Conforms ==
    /\ \A i \in 1..Len(lines) : Line(i).kind \in {"entry", "blank"}
    /\ eofNl \/ Line(Len(lines)).chars = <<>>

\* C26: parse() reports zero errors only when the whole text conforms to the
\* grammar.
C26_ZeroErrorsOnlyIfConforms ==
    (pad = NUL /\ cpc = "idle" /\ pc = "done" /\ errors = <<>>) => Conforms

\* C27: serializing an empty Data succeeds: create() never reads the end
\* position of the empty map.
C27_EmptyDataWritten == src = EmptyData => cpc # "fault"

\* C28: the prune loop never advances an iterator that refers to an entry it
\* has erased: whenever the loop's iterator moves on from an entry, that entry
\* is still in the Data.
C28_NoErasedIterator ==
    [][(vpc = "prune" /\ ~vit.end /\ vit' # vit) => vit.key \in DOMAIN vdata']_vars

\* The schema keys the input holds with a value of the default's type.
Matching == {k \in DOMAIN schema \cap DOMAIN vin : vin[k].type = schema[k].type}

\* C29: validate() leaves unchanged every entry whose key is in the schema and
\* whose value has the type discriminant of the schema default, whatever the
\* value (a list whatever its elements), and emits no warning for it.
C29_MatchingKept ==
    (~acceptAny /\ pass = 1) =>
        \A k \in Matching :
            /\ k \in DOMAIN vdata
            /\ vdata[k] = vin[k]
            /\ \A i \in 1..Len(ws) : ws[i].key # k

\* A validation has returned and kept a list whose elements differ from those
\* of the schema default.
C29_Witness ==
    /\ Validated
    /\ \E k \in Matching :
           vin[k].type = "List" /\ vin[k] # schema[k] /\ vdata[k] = vin[k]

\* C30: when parse() returns, each key assigned on valid lines has one entry,
\* whose value is that of the last valid line assigning it; malformed lines
\* for the key do not change it.
C30_LastValidLineWins ==
    (pad = NUL /\ TextOfKinds({"entry", "bad"}) /\ NoWideInt /\ pc = "done") =>
        \A k \in DOMAIN Denoted : k \in DOMAIN data /\ data[k] = Denoted[k]

=============================================================================
